---- MODULE Spec2Model ----
(***************************************************************************)
(* Model of redis/sorted set.go (package redis): the SortedSet facade's    *)
(* IsValid future, the SortedSetRange builder (Scores ... Get) and the     *)
(* SortedSetCombo builder (StoreUnion/StoreIntersection ... Use*Score).    *)
(*                                                                         *)
(* A client holds one handle at a time (obj): nothing, a range builder, a  *)
(* combination builder, or the channel of an IsValid call.  The builders   *)
(* and the channel share no state, so their behaviours are explored one    *)
(* handle per behaviour.  float64 scores and weights are whole numbers in  *)
(* the model; NaN is outside the modelled domain.                          *)
(***************************************************************************)
EXTENDS Integers, Sequences, FiniteSets, TLC

VARIABLES
    obj,         \* what the client holds: "none", "range", "combo", "valid"
    rng,         \* the SortedSetRange struct
    combo,       \* the SortedSetCombo struct
    last,        \* name of the most recent call
    sent,        \* argument list handed to the executor by the most recent
                 \* terminal call; <<>> after a builder call
    rerun,       \* the most recent terminal call directly followed another
    lowerCalls,  \* history: every <<"Above" | "AboveOrEqualTo", v>> called
    upperCalls,  \* history: every <<"Below" | "BelowOrEqualTo", v>> called
    revCalls,    \* history: number of Reversed() calls
    lastLimit,   \* history: <<offset, count>> of the latest Limit, or <<>>
    comboCalls,  \* history: sequence of OfSet / OfWeightedSet calls
    pc,          \* position inside IsValid
    typeCh,      \* the channel returned by Type(): its pending reply
    tval,        \* the string IsValid received from Type()
    c,           \* buffer of the channel made by IsValid
    cClosed,     \* whether that channel is closed
    got          \* what the client received from IsValid's channel

vars == <<obj, rng, combo, last, sent, rerun, lowerCalls, upperCalls, revCalls,
          lastLimit, comboCalls, pc, typeCh, tval, c, cClosed, got>>

rangeHist == <<lowerCalls, upperCalls, revCalls, lastLimit>>
validVars == <<pc, typeCh, tval, c, cClosed, got>>

(***************************************************************************)
(* Bounds of the model.                                                    *)
(***************************************************************************)
MaxScore == 0          \* scores passed to the bound calls are -1 .. MaxScore
MaxReversals == 2      \* Reversed() is called at most this often
MaxComboCalls == 3     \* OfSet / OfWeightedSet calls per combination builder
MaxRecv == 2           \* receives the client attempts on IsValid's channel

ScoreVals == -1 .. MaxScore
LimitArgs == {<<0, 10>>, <<5, -1>>}
WeightVals == {1, 3}
TypeNames == {"zset", "set", "string", "none"}

(***************************************************************************)
(* Helpers of the package that live outside sorted set.go.                 *)
(***************************************************************************)
Digits == <<"0", "1", "2", "3", "4", "5", "6", "7", "8", "9">>

RECURSIVE utoa(_)
utoa(n) == IF n < 10 THEN Digits[n + 1] ELSE utoa(n \div 10) \o Digits[(n % 10) + 1]

\* itoa: decimal rendering of an int
itoa(i) == IF i < 0 THEN "-" \o utoa(-i) ELSE utoa(i)

\* ftoa: shortest decimal rendering of a (whole-valued) float64
ftoa(f) == IF f < 0 THEN "-" \o utoa(-f) ELSE utoa(f)

\* Key.args: the command name, the key, then the arguments
KeyArgs(key, op, a) == <<op, key>> \o a

\* the key this SortedSet was made for, and the keys of the other sets
ThisKey == "zs"
OtherKeys == {"a", "b", "c"}

(***************************************************************************)
(* SortedSetRange                                                          *)
(***************************************************************************)
ZeroRange ==
    [min |-> "", max |-> "", fmin |-> 0, fmax |-> 0, limited |-> FALSE,
     offset |-> 0, count |-> 0, reversed |-> FALSE, key |-> ""]

Scores(key) == [ZeroRange EXCEPT !.min = "-inf", !.max = "+inf", !.key = key]

Above_strict(this, min) ==
    IF this.min = "-inf" \/ this.fmin < min
    THEN [this EXCEPT !.fmin = min, !.min = "(" \o ftoa(min)]
    ELSE this

Above(this, min) ==
    IF this.min = "-inf" \/ this.fmin <= min
    THEN [this EXCEPT !.fmin = min, !.min = "(" \o ftoa(min)]
    ELSE this

Below(this, max) ==
    IF this.max = "+inf" \/ this.fmax >= max
    THEN [this EXCEPT !.fmax = max, !.max = "(" \o ftoa(max)]
    ELSE this

AboveOrEqualTo(this, min) ==
    IF this.min = "-inf" \/ this.fmin < min
    THEN [this EXCEPT !.fmin = min, !.min = ftoa(min)]
    ELSE this

BelowOrEqualTo_lax(this, max) ==
    IF this.max = "+inf" \/ this.fmax >= max
    THEN [this EXCEPT !.fmax = max, !.max = ftoa(max)]
    ELSE this

BelowOrEqualTo(this, max) ==
    IF this.max = "+inf" \/ this.fmax > max
    THEN [this EXCEPT !.fmax = max, !.max = ftoa(max)]
    ELSE this

Reversed_set(this) == [this EXCEPT !.reversed = TRUE]

Reversed(this) == [this EXCEPT !.reversed = ~this.reversed]

Limit_once(this, offset, count) ==
    IF this.limited THEN this
    ELSE [this EXCEPT !.limited = TRUE, !.offset = offset, !.count = count]

Limit(this, offset, count) ==
    [this EXCEPT !.limited = TRUE, !.offset = offset, !.count = count]

Count(this) == KeyArgs(this.key, "zcount", <<this.min, this.max>>)

Remove(this) == KeyArgs(this.key, "zremrangebyscore", <<this.min, this.max>>)

Get(this) ==
    LET op == IF this.reversed THEN "zrevrangebyscore" ELSE "zrangebyscore"
        a2 == IF this.reversed THEN <<this.max, this.min>>
              ELSE <<this.min, this.max>>
        a == IF this.limited
             THEN a2 \o <<"LIMIT", itoa(this.offset), itoa(this.count)>>
             ELSE a2
    IN  KeyArgs(this.key, op, a)

GetWithScores(this) ==
    LET op == IF this.reversed THEN "zrevrangebyscore" ELSE "zrangebyscore"
        a2 == IF this.reversed THEN <<this.max, this.min>>
              ELSE <<this.min, this.max>>
        a3 == a2 \o <<"WITHSCORES">>
        a == IF this.limited
             THEN a3 \o <<"LIMIT", itoa(this.offset), itoa(this.count)>>
             ELSE a3
    IN  KeyArgs(this.key, op, a)

(***************************************************************************)
(* SortedSetCombo                                                          *)
(***************************************************************************)
ZeroCombo == [weighted |-> FALSE, op |-> "", sets |-> <<>>, key |-> ""]

StoreUnion(key) == [ZeroCombo EXCEPT !.op = "zunionstore", !.key = key]

StoreIntersection(key) == [ZeroCombo EXCEPT !.op = "zinterstore", !.key = key]

\* this.sets[k] = w on a Go map (a nil map is first made empty)
MapPut(sets, k, w) ==
    [x \in (DOMAIN sets) \cup {k} |-> IF x = k THEN w ELSE sets[x]]

OfSet(this, otherKey) == [this EXCEPT !.sets = MapPut(this.sets, otherKey, 1)]

OfWeightedSet(this, otherKey, weight) ==
    [this EXCEPT !.weighted = TRUE, !.sets = MapPut(this.sets, otherKey, weight)]

\* the orders in which "for set, weight := range this.sets" may visit the map
RangeOrders(sets) ==
    LET n == Cardinality(DOMAIN sets)
    IN  {o \in [1 .. n -> DOMAIN sets] :
            \A i, j \in 1 .. n : i # j => o[i] # o[j]}

\* weights collected by a second pass over the map, in another order
args_twoPasses(this, mode, order) ==
    LET n == Cardinality(DOMAIN this.sets)
        result == <<itoa(n)>> \o order
        weights == <<"WEIGHTS">> \o
                   [i \in 1 .. n |-> ftoa(this.sets[order[n + 1 - i]])]
        r2 == IF this.weighted THEN result \o weights ELSE result
        r3 == IF mode # "SUM" THEN r2 \o <<"AGGREGATE", mode>> ELSE r2
    IN  KeyArgs(this.key, this.op, r3)

\* order: the order in which the range loop visits this.sets
args(this, mode, order) ==
    LET n == Cardinality(DOMAIN this.sets)
        result == <<itoa(n)>> \o order
        weights == <<"WEIGHTS">> \o [i \in 1 .. n |-> ftoa(this.sets[order[i]])]
        r2 == IF this.weighted THEN result \o weights ELSE result
        r3 == IF mode # "SUM" THEN r2 \o <<"AGGREGATE", mode>> ELSE r2
    IN  KeyArgs(this.key, this.op, r3)

UseLowerScore(this, order) == args(this, "MIN", order)

UseHigherScore(this, order) == args(this, "MAX", order)

UseCombinedScores(this, order) == args(this, "SUM", order)

(***************************************************************************)
(* SortedSet.IsValid                                                       *)
(***************************************************************************)
ChanCap == 1     \* c := make(chan bool, 1)

(***************************************************************************)
(* Initial state: the client holds no handle yet.                          *)
(***************************************************************************)
Init ==
    /\ obj = "none"
    /\ rng = ZeroRange
    /\ combo = ZeroCombo
    /\ last = "none"
    /\ sent = <<>>
    /\ rerun = FALSE
    /\ lowerCalls = {}
    /\ upperCalls = {}
    /\ revCalls = 0
    /\ lastLimit = <<>>
    /\ comboCalls = <<>>
    /\ pc = "idle"
    /\ typeCh = <<"none">>
    /\ tval = ""
    /\ c = <<>>
    /\ cClosed = FALSE
    /\ got = <<>>

RangeTerminals == {"Count", "Remove", "Get", "GetWithScores"}
ComboTerminals == {"UseLowerScore", "UseHigherScore", "UseCombinedScores"}
Terminals == RangeTerminals \cup ComboTerminals

(***************************************************************************)
(* Calls on the range builder.                                             *)
(***************************************************************************)
CallScores ==
    /\ obj = "none"
    /\ obj' = "range"
    /\ rng' = Scores(ThisKey)
    /\ last' = "Scores"
    /\ UNCHANGED <<combo, sent, rerun, rangeHist, comboCalls, validVars>>

CallAbove ==
    /\ obj = "range"
    /\ \E v \in ScoreVals :
          /\ rng' = Above(rng, v)
          /\ lowerCalls' = lowerCalls \cup {<<"Above", v>>}
    /\ last' = "Above"
    /\ sent' = <<>>
    /\ rerun' = FALSE
    /\ UNCHANGED <<obj, combo, upperCalls, revCalls, lastLimit, comboCalls, validVars>>

CallBelow ==
    /\ obj = "range"
    /\ \E v \in ScoreVals :
          /\ rng' = Below(rng, v)
          /\ upperCalls' = upperCalls \cup {<<"Below", v>>}
    /\ last' = "Below"
    /\ sent' = <<>>
    /\ rerun' = FALSE
    /\ UNCHANGED <<obj, combo, lowerCalls, revCalls, lastLimit, comboCalls, validVars>>

CallAboveOrEqualTo ==
    /\ obj = "range"
    /\ \E v \in ScoreVals :
          /\ rng' = AboveOrEqualTo(rng, v)
          /\ lowerCalls' = lowerCalls \cup {<<"AboveOrEqualTo", v>>}
    /\ last' = "AboveOrEqualTo"
    /\ sent' = <<>>
    /\ rerun' = FALSE
    /\ UNCHANGED <<obj, combo, upperCalls, revCalls, lastLimit, comboCalls, validVars>>

CallBelowOrEqualTo ==
    /\ obj = "range"
    /\ \E v \in ScoreVals :
          /\ rng' = BelowOrEqualTo(rng, v)
          /\ upperCalls' = upperCalls \cup {<<"BelowOrEqualTo", v>>}
    /\ last' = "BelowOrEqualTo"
    /\ sent' = <<>>
    /\ rerun' = FALSE
    /\ UNCHANGED <<obj, combo, lowerCalls, revCalls, lastLimit, comboCalls, validVars>>

CallReversed ==
    /\ obj = "range"
    /\ revCalls < MaxReversals
    /\ rng' = Reversed(rng)
    /\ revCalls' = revCalls + 1
    /\ last' = "Reversed"
    /\ sent' = <<>>
    /\ rerun' = FALSE
    /\ UNCHANGED <<obj, combo, lowerCalls, upperCalls, lastLimit, comboCalls, validVars>>

CallLimit ==
    /\ obj = "range"
    /\ \E a \in LimitArgs :
          /\ rng' = Limit(rng, a[1], a[2])
          /\ lastLimit' = a
    /\ last' = "Limit"
    /\ sent' = <<>>
    /\ rerun' = FALSE
    /\ UNCHANGED <<obj, combo, lowerCalls, upperCalls, revCalls, comboCalls, validVars>>

CallCount ==
    /\ obj = "range"
    /\ sent' = Count(rng)
    /\ last' = "Count"
    /\ rerun' = (last \in RangeTerminals)
    /\ UNCHANGED <<obj, rng, combo, rangeHist, comboCalls, validVars>>

CallRemove ==
    /\ obj = "range"
    /\ sent' = Remove(rng)
    /\ last' = "Remove"
    /\ rerun' = (last \in RangeTerminals)
    /\ UNCHANGED <<obj, rng, combo, rangeHist, comboCalls, validVars>>

\* a Get that consumes the LIMIT clause it sent
CallGet_consumesLimit ==
    /\ obj = "range"
    /\ sent' = Get(rng)
    /\ last' = "Get"
    /\ rerun' = (last \in RangeTerminals)
    /\ rng' = [rng EXCEPT !.limited = FALSE]
    /\ UNCHANGED <<obj, combo, rangeHist, comboCalls, validVars>>

CallGet ==
    /\ obj = "range"
    /\ sent' = Get(rng)
    /\ last' = "Get"
    /\ rerun' = (last \in RangeTerminals)
    /\ UNCHANGED <<obj, rng, combo, rangeHist, comboCalls, validVars>>

CallGetWithScores ==
    /\ obj = "range"
    /\ sent' = GetWithScores(rng)
    /\ last' = "GetWithScores"
    /\ rerun' = (last \in RangeTerminals)
    /\ UNCHANGED <<obj, rng, combo, rangeHist, comboCalls, validVars>>

(***************************************************************************)
(* Calls on the combination builder.                                       *)
(***************************************************************************)
CallStoreUnion ==
    /\ obj = "none"
    /\ obj' = "combo"
    /\ combo' = StoreUnion(ThisKey)
    /\ last' = "StoreUnion"
    /\ UNCHANGED <<rng, sent, rerun, rangeHist, comboCalls, validVars>>

CallStoreIntersection ==
    /\ obj = "none"
    /\ obj' = "combo"
    /\ combo' = StoreIntersection(ThisKey)
    /\ last' = "StoreIntersection"
    /\ UNCHANGED <<rng, sent, rerun, rangeHist, comboCalls, validVars>>

CallOfSet ==
    /\ obj = "combo"
    /\ Len(comboCalls) < MaxComboCalls
    /\ \E k \in OtherKeys :
          /\ combo' = OfSet(combo, k)
          /\ comboCalls' = Append(comboCalls, [call |-> "OfSet", key |-> k])
    /\ last' = "OfSet"
    /\ sent' = <<>>
    /\ rerun' = FALSE
    /\ UNCHANGED <<obj, rng, rangeHist, validVars>>

CallOfWeightedSet ==
    /\ obj = "combo"
    /\ Len(comboCalls) < MaxComboCalls
    /\ \E k \in OtherKeys, w \in WeightVals :
          /\ combo' = OfWeightedSet(combo, k, w)
          /\ comboCalls' = Append(comboCalls,
                                  [call |-> "OfWeightedSet", key |-> k, weight |-> w])
    /\ last' = "OfWeightedSet"
    /\ sent' = <<>>
    /\ rerun' = FALSE
    /\ UNCHANGED <<obj, rng, rangeHist, validVars>>

CallUseLowerScore ==
    /\ obj = "combo"
    /\ \E o \in RangeOrders(combo.sets) : sent' = UseLowerScore(combo, o)
    /\ last' = "UseLowerScore"
    /\ rerun' = (last \in ComboTerminals)
    /\ UNCHANGED <<obj, rng, combo, rangeHist, comboCalls, validVars>>

CallUseHigherScore ==
    /\ obj = "combo"
    /\ \E o \in RangeOrders(combo.sets) : sent' = UseHigherScore(combo, o)
    /\ last' = "UseHigherScore"
    /\ rerun' = (last \in ComboTerminals)
    /\ UNCHANGED <<obj, rng, combo, rangeHist, comboCalls, validVars>>

CallUseCombinedScores ==
    /\ obj = "combo"
    /\ \E o \in RangeOrders(combo.sets) : sent' = UseCombinedScores(combo, o)
    /\ last' = "UseCombinedScores"
    /\ rerun' = (last \in ComboTerminals)
    /\ UNCHANGED <<obj, rng, combo, rangeHist, comboCalls, validVars>>

(***************************************************************************)
(* IsValid, step by step.  The function literal is called in place (there  *)
(* is no go statement), so IsValid returns c only after the send and the   *)
(* deferred close.                                                         *)
(***************************************************************************)
builderVars == <<rng, combo, last, sent, rerun, rangeHist, comboCalls>>

\* c := make(chan bool, 1); this.Type() issues the command
CallIsValid ==
    /\ obj = "none"
    /\ obj' = "valid"
    /\ pc' = "recv"
    /\ c' = <<>>
    /\ cClosed' = FALSE
    /\ typeCh' = <<"pending">>
    /\ UNCHANGED <<builderVars, tval, got>>

\* the executor delivers the reply of Type()
TypeReply ==
    /\ typeCh = <<"pending">>
    /\ \E v \in TypeNames : typeCh' = <<"ready", v>>
    /\ UNCHANGED <<obj, builderVars, pc, tval, c, cClosed, got>>

\* <-this.Type()
IsValidRecv ==
    /\ pc = "recv"
    /\ typeCh[1] = "ready"
    /\ tval' = typeCh[2]
    /\ typeCh' = <<"taken">>
    /\ pc' = "send"
    /\ UNCHANGED <<obj, builderVars, c, cClosed, got>>

\* a comparison against the wrong type name
IsValidSend_wrongName ==
    /\ pc = "send"
    /\ ~cClosed
    /\ Len(c) < ChanCap
    /\ c' = Append(c, tval = "set")
    /\ pc' = "close"
    /\ UNCHANGED <<obj, builderVars, typeCh, tval, cClosed, got>>

\* c <- (... == "zset"): enabled only while the buffer has room
IsValidSend ==
    /\ pc = "send"
    /\ ~cClosed
    /\ Len(c) < ChanCap
    /\ c' = Append(c, tval = "zset")
    /\ pc' = "close"
    /\ UNCHANGED <<obj, builderVars, typeCh, tval, cClosed, got>>

\* defer close(c); return c
IsValidClose ==
    /\ pc = "close"
    /\ cClosed' = TRUE
    /\ pc' = "returned"
    /\ UNCHANGED <<obj, builderVars, typeCh, tval, c, got>>

\* the caller receives from the returned channel: a buffered value, or the
\* zero value with ok = false once the channel is closed and drained
ClientRecv ==
    /\ pc = "returned"
    /\ Len(got) < MaxRecv
    /\ \/ /\ c # <<>>
          /\ got' = Append(got, [val |-> Head(c), ok |-> TRUE])
          /\ c' = Tail(c)
       \/ /\ c = <<>>
          /\ cClosed
          /\ got' = Append(got, [val |-> FALSE, ok |-> FALSE])
          /\ c' = c
    /\ UNCHANGED <<obj, builderVars, pc, typeCh, tval, cClosed>>

Next ==
    \/ CallScores
    \/ CallAbove
    \/ CallBelow
    \/ CallAboveOrEqualTo
    \/ CallBelowOrEqualTo
    \/ CallReversed
    \/ CallLimit
    \/ CallCount
    \/ CallRemove
    \/ CallGet
    \/ CallGetWithScores
    \/ CallStoreUnion
    \/ CallStoreIntersection
    \/ CallOfSet
    \/ CallOfWeightedSet
    \/ CallUseLowerScore
    \/ CallUseHigherScore
    \/ CallUseCombinedScores
    \/ CallIsValid
    \/ TypeReply
    \/ IsValidRecv
    \/ IsValidSend
    \/ IsValidClose
    \/ ClientRecv

Spec == Init /\ [][Next]_vars

(***************************************************************************)
(* Properties.                                                             *)
(***************************************************************************)
MaxOf(S) == CHOOSE x \in S : \A y \in S : y <= x
MinOf(S) == CHOOSE x \in S : \A y \in S : x <= y

\* the range arguments as the store reads them: ZREVRANGEBYSCORE takes
\* max before min, every other range command min before max
LowerArg == IF sent[1] = "zrevrangebyscore" THEN sent[4] ELSE sent[3]
UpperArg == IF sent[1] = "zrevrangebyscore" THEN sent[3] ELSE sent[4]

MostRestrictiveLower ==
    IF lowerCalls = {} THEN "-inf"
    ELSE LET m == MaxOf({p[2] : p \in lowerCalls})
         IN  IF <<"Above", m>> \in lowerCalls THEN "(" \o ftoa(m) ELSE ftoa(m)

MostRestrictiveUpper ==
    IF upperCalls = {} THEN "+inf"
    ELSE LET m == MinOf({p[2] : p \in upperCalls})
         IN  IF <<"Below", m>> \in upperCalls THEN "(" \o ftoa(m) ELSE ftoa(m)

\* C1: whatever Above / AboveOrEqualTo calls were made, in whatever order and
\* among whatever other builder calls, the lower bound sent by Count, Remove,
\* Get and GetWithScores is "-inf" if there was none, and otherwise the
\* largest value passed, exclusive exactly when Above was called with it.
C1_LowerBoundMostRestrictive ==
    (obj = "range" /\ last \in RangeTerminals) => LowerArg = MostRestrictiveLower

\* C1 witness: Above and AboveOrEqualTo were both called with the largest
\* value, a looser bound was requested as well, and Get sent "(0".
C1_Witness ==
    /\ obj = "range"
    /\ last = "Get"
    /\ {<<"Above", 0>>, <<"AboveOrEqualTo", 0>>, <<"AboveOrEqualTo", -1>>} \subseteq lowerCalls
    /\ upperCalls # {}
    /\ revCalls = 1
    /\ LowerArg = "(0"

\* C2: the upper bound sent by Count, Remove, Get and GetWithScores is "+inf"
\* if Below / BelowOrEqualTo were never called, and otherwise the smallest
\* value passed, exclusive exactly when Below was called with it.
C2_UpperBoundMostRestrictive ==
    (obj = "range" /\ last \in RangeTerminals) => UpperArg = MostRestrictiveUpper

\* C2 witness: only BelowOrEqualTo was called with the smallest value, Below
\* with a looser one, and Count sent the inclusive "-1".
C2_Witness ==
    /\ obj = "range"
    /\ last = "Count"
    /\ upperCalls = {<<"BelowOrEqualTo", -1>>, <<"Below", 0>>, <<"BelowOrEqualTo", 0>>}
    /\ lowerCalls # {}
    /\ UpperArg = "-1"

Forward == sent[1] = "zrangebyscore" /\ sent[3] = rng.min /\ sent[4] = rng.max
Backward == sent[1] = "zrevrangebyscore" /\ sent[3] = rng.max /\ sent[4] = rng.min

\* C3 as stated: once Reversed() was called, one or more times, Get and
\* GetWithScores issue zrevrangebyscore with the upper bound first; without
\* any Reversed() call they issue zrangebyscore with the lower bound first.
C3_ReversedOnceOrMore ==
    (obj = "range" /\ last \in {"Get", "GetWithScores"}) =>
        IF revCalls >= 1 THEN Backward ELSE Forward

\* C3 amended: Get and GetWithScores issue zrevrangebyscore with the upper
\* bound first exactly when Reversed() was called an odd number of times, and
\* zrangebyscore with the lower bound first otherwise.
C3_ReversedOddTimes ==
    (obj = "range" /\ last \in {"Get", "GetWithScores"}) =>
        IF revCalls % 2 = 1 THEN Backward ELSE Forward

\* C3 witness: Reversed() was called once, both bounds were set and differ,
\* and GetWithScores sent them upper first.
C3_Witness ==
    /\ obj = "range"
    /\ last = "GetWithScores"
    /\ revCalls = 1
    /\ sent[1] = "zrevrangebyscore"
    /\ sent[3] = "(0"
    /\ sent[4] = "-1"

\* C4: Get and GetWithScores end their arguments with "LIMIT", offset, count
\* of the latest Limit call exactly when Limit was called; the clause follows
\* the two bounds in Get and "WITHSCORES" in GetWithScores.
C4_LimitClause ==
    (obj = "range" /\ last \in {"Get", "GetWithScores"}) =>
        LET base == IF last = "Get" THEN 4 ELSE 5
        IN  /\ last = "GetWithScores" => sent[5] = "WITHSCORES"
            /\ IF lastLimit # <<>>
               THEN /\ Len(sent) = base + 3
                    /\ sent[base + 1] = "LIMIT"
                    /\ sent[base + 2] = itoa(lastLimit[1])
                    /\ sent[base + 3] = itoa(lastLimit[2])
               ELSE /\ Len(sent) = base
                    /\ \A i \in 1 .. Len(sent) : sent[i] # "LIMIT"

\* C4 witness: GetWithScores after Limit(5, -1) sent WITHSCORES LIMIT 5 -1.
C4_Witness ==
    /\ obj = "range"
    /\ last = "GetWithScores"
    /\ lastLimit = <<5, -1>>
    /\ SubSeq(sent, 5, Len(sent)) = <<"WITHSCORES", "LIMIT", "5", "-1">>

AddedKeys == {comboCalls[i].key : i \in 1 .. Len(comboCalls)}
EverWeighted == \E i \in 1 .. Len(comboCalls) : comboCalls[i].call = "OfWeightedSet"
LastWeight(k) ==
    LET i == MaxOf({j \in 1 .. Len(comboCalls) : comboCalls[j].key = k})
    IN  IF comboCalls[i].call = "OfSet" THEN 1 ELSE comboCalls[i].weight

\* index of the first argument after the source keys
KeysEnd ==
    LET idx == {i \in 4 .. Len(sent) : sent[i] \in {"WEIGHTS", "AGGREGATE"}}
    IN  IF idx = {} THEN Len(sent) + 1 ELSE MinOf(idx)

\* C5: in the command of UseLowerScore / UseHigherScore / UseCombinedScores,
\* numkeys counts the source keys that follow it, every added key is listed
\* exactly once, and a WEIGHTS clause is sent exactly when OfWeightedSet was
\* called, holding for the i-th key the weight last given for it (1 when the
\* key was last added with OfSet).
C5_ComboArgs ==
    (obj = "combo" /\ last \in ComboTerminals) =>
        LET ke == KeysEnd
            n == ke - 4
        IN  /\ sent[3] = itoa(n)
            /\ {sent[i] : i \in 4 .. ke - 1} = AddedKeys
            /\ n = Cardinality(AddedKeys)
            /\ IF EverWeighted
               THEN /\ ke + n <= Len(sent)
                    /\ sent[ke] = "WEIGHTS"
                    /\ \A i \in 1 .. n : sent[ke + i] = ftoa(LastWeight(sent[3 + i]))
                    /\ Len(sent) = ke + n \/ sent[ke + n + 1] = "AGGREGATE"
               ELSE \A i \in 1 .. Len(sent) : sent[i] # "WEIGHTS"

\* C5 witness: "a" weighted 1, then "b" added plainly, then "a" re-weighted
\* 3; the range loop visited "b" first.
C5_Witness ==
    /\ obj = "combo"
    /\ comboCalls = << [call |-> "OfWeightedSet", key |-> "a", weight |-> 1],
                       [call |-> "OfSet", key |-> "b"],
                       [call |-> "OfWeightedSet", key |-> "a", weight |-> 3] >>
    /\ sent = <<"zunionstore", "zs", "2", "b", "a", "WEIGHTS", "1", "3",
                "AGGREGATE", "MIN">>

Delivered == SelectSeq(got, LAMBDA g : g.ok)

\* C6: the send inside IsValid always finds room in the buffer; the channel
\* never carries or delivers more than one value; once IsValid has returned
\* (Type() has delivered), the channel is closed and holds or has delivered
\* exactly one boolean, true exactly when the type is "zset".
C6_IsValidFuture ==
    /\ pc = "send" => (Len(c) < ChanCap /\ ~cClosed)
    /\ Len(c) + Len(Delivered) <= 1
    /\ \A i \in 1 .. Len(c) : c[i] = (tval = "zset")
    /\ \A i \in 1 .. Len(Delivered) : Delivered[i].val = (tval = "zset")
    /\ pc = "returned" =>
          /\ typeCh = <<"taken">>
          /\ cClosed
          /\ Len(c) + Len(Delivered) = 1

\* C6 witness: the type was "zset", the client received true and then found
\* the channel closed.
C6_Witness ==
    /\ pc = "returned"
    /\ tval = "zset"
    /\ got = <<[val |-> TRUE, ok |-> TRUE], [val |-> FALSE, ok |-> FALSE]>>

Elements(s) == {s[i] : i \in 1 .. Len(s)}

\* C7: a terminal call changes no field of its builder, and a terminal call
\* repeated right after itself sends the identical argument list (range
\* builder) or the same command, key, numkeys and arguments up to the order
\* of the map iteration (combination builder).
C7_TerminalsOnlyRead ==
    [][ /\ last' \in RangeTerminals => rng' = rng
        /\ last' \in ComboTerminals => combo' = combo
        /\ (last \in RangeTerminals /\ last' = last) => sent' = sent
        /\ (last \in ComboTerminals /\ last' = last) =>
              /\ Len(sent') = Len(sent)
              /\ SubSeq(sent', 1, 3) = SubSeq(sent, 1, 3)
              /\ Elements(sent') = Elements(sent) ]_vars

\* C7 witness: Get ran right after another terminal call on a builder with
\* bounds, a limit and the reversed flag set.
C7_Witness ==
    /\ obj = "range"
    /\ last = "Get"
    /\ rerun
    /\ sent = <<"zrevrangebyscore", "zs", "0", "(-1", "LIMIT", "0", "10">>

====
